---- MODULE Spec2Model ----
(***************************************************************************)
(* Model of picamera_stream.py: the main thread (module body and the       *)
(* __main__ block), the camera capture thread (capture_frames with         *)
(* setup_camera inlined), and one gen_frames generator per viewer of       *)
(* /video_feed.  The three module globals frame_buffer, buffer_lock and    *)
(* stop_thread are the shared state.                                       *)
(***************************************************************************)
EXTENDS Integers, FiniteSets, Sequences, TLC

\* ---------------------------------------------------------------- bounds
\* the camera's images are told apart up to this one; capture_frames and
\* gen_frames never look into the bytes, so the n-th image is the number n,
\* and every image from this one on is the same number
MaxFrames == 2
\* the per-generator chunk counter saturates here
MaxChunks == 2

\* ------------------------------------------------------------- constants
\* gen_frames gives up once wait_count exceeds this (line 174)
MAX_WAIT == 20

\* frame_buffer = None (line 39)
None == 0
\* the images picam2.capture_file can write into the stream
Frames == 1 .. MaxFrames
\* the bytes of the 640x480 black image with the caption (lines 178-186)
ErrorImage == -1

\* the viewers of /video_feed; each drives one gen_frames() generator
Gens == {"g1", "g2"}
\* buffer_lock is not held
Free == "free"

\* the smaller of two numbers
Min(a, b) == IF a < b THEN a ELSE b

\* no chunk yielded yet
NoChunk == << >>
\* the multipart chunk built at lines 189-190 and 202-203
Chunk(img) == << "--frame", "Content-Type: image/jpeg", img >>

VARIABLES
    driver,        \* TRUE iff the picamera2 package can be imported
    mainPc,        \* position of the main thread
    capPc,         \* position of the capture thread
    device,        \* the camera handle: "absent", "open" or "released"
    shots,         \* number of images the camera has delivered (saturating)
    stream,        \* capture_frames local, line 132: the bytes captured
    closeCalls,    \* number of picam2.close() calls made so far
    frame_buffer,  \* module global, line 39
    buffer_lock,   \* module global, line 40: Free or the generator holding it
    stop_thread,   \* module global, line 41
    published,     \* history: the set of frames stored by line 142 so far
    lastPub,       \* history: the frame of the latest store by line 142
    pubAfterStop,  \* history: stores by line 142 since stop_thread was set
    genPc,         \* position of each generator
    first,         \* history: what each generator's first test at line 171 found
    wait_count,    \* gen_frames local, line 170
    seen,          \* the value each generator last read from frame_buffer
    sent,          \* the last chunk each generator yielded
    nsent          \* number of chunks each generator yielded (saturating)

vars == << driver, mainPc, capPc, device, shots, stream, closeCalls, frame_buffer,
           buffer_lock, stop_thread, published, lastPub, pubAfterStop,
           genPc, first, wait_count, seen, sent, nsent >>

mainVars == << driver, mainPc >>
capVars  == << capPc, device, shots, stream, closeCalls >>
bufVars  == << frame_buffer, published, lastPub, pubAfterStop >>
genVars  == << genPc, first, wait_count, seen, sent, nsent >>

\* the process runs until the main thread ends; the capture thread is a
\* daemon (line 324) and dies with it
alive == mainPc \notin {"crashed", "fallback_exit", "exited"}

Init ==
    /\ driver \in BOOLEAN
    /\ mainPc = "import"
    /\ capPc = "not_started"
    /\ device = "absent"
    /\ shots = 0
    /\ stream = None
    /\ closeCalls = 0
    /\ frame_buffer = None
    /\ buffer_lock = Free
    /\ stop_thread = FALSE
    /\ published = {}
    /\ lastPub = None
    /\ pubAfterStop = 0
    /\ genPc = [g \in Gens |-> "idle"]
    /\ first = [g \in Gens |-> "untested"]
    /\ wait_count = [g \in Gens |-> 0]
    /\ seen = [g \in Gens |-> None]
    /\ sent = [g \in Gens |-> NoChunk]
    /\ nsent = [g \in Gens |-> 0]

\* ===================================================== the main thread ==

\* line 30: the module body imports picamera2 before anything else runs
ModuleImports ==
    /\ mainPc = "import"
    /\ mainPc' = IF driver THEN "check" ELSE "crashed"
    /\ UNCHANGED << driver, capVars, bufVars, buffer_lock, stop_thread, genVars >>

\* lines 284-299
check_picamera2 == driver

\* lines 312-320: without the driver run rtsp_stream.py, then exit(0)
MainCheck ==
    /\ mainPc = "check"
    /\ mainPc' = IF check_picamera2 THEN "thread_start" ELSE "fallback_exit"
    /\ UNCHANGED << driver, capVars, bufVars, buffer_lock, stop_thread, genVars >>

\* lines 323-325
ThreadStart ==
    /\ mainPc = "thread_start"
    /\ mainPc' = "app_run"
    /\ capPc' = "import"
    /\ UNCHANGED << driver, device, shots, stream, closeCalls, bufVars,
                    buffer_lock, stop_thread, genVars >>

\* lines 330-336: app.run returns, or is interrupted, or raises
AppRunEnds ==
    /\ mainPc = "app_run"
    /\ mainPc' = "finally"
    /\ UNCHANGED << driver, capVars, bufVars, buffer_lock, stop_thread, genVars >>

\* line 338
SetStop ==
    /\ mainPc = "finally"
    /\ stop_thread' = TRUE
    /\ mainPc' = "join"
    /\ UNCHANGED << driver, capVars, bufVars, buffer_lock, genVars >>

\* the capture thread has returned (line 111, line 119 or after line 153) or
\* died of an exception
CapFinished == capPc \in {"no_camera", "done", "died"}

\* line 339: join returns because the thread ended
JoinReturns ==
    /\ mainPc = "join"
    /\ CapFinished
    /\ mainPc' = "exited"
    /\ UNCHANGED << driver, capVars, bufVars, buffer_lock, stop_thread, genVars >>

\* join without its timeout: it returns only when the thread has ended
JoinWaitsForever ==
    /\ mainPc = "join"
    /\ CapFinished
    /\ mainPc' = "exited"
    /\ UNCHANGED << driver, capVars, bufVars, buffer_lock, stop_thread, genVars >>

\* line 339: join returns because the 1.0 s timeout expired
JoinTimeout ==
    /\ mainPc = "join"
    /\ ~CapFinished
    /\ mainPc' = "exited"
    /\ UNCHANGED << driver, capVars, bufVars, buffer_lock, stop_thread, genVars >>

Main ==
    \/ ModuleImports
    \/ MainCheck
    \/ ThreadStart
    \/ AppRunEnds
    \/ SetStop
    \/ JoinReturns
    \/ JoinTimeout

\* ================================================== the capture thread ==

\* CapImport entered again after a failed setup: the camera is retried
CapImportRetries ==
    /\ alive
    /\ capPc \in {"import", "no_camera"}
    /\ capPc' = IF driver THEN "setup_open" ELSE "done"
    /\ UNCHANGED << mainVars, shots, device, stream, closeCalls, bufVars, buffer_lock,
                    stop_thread, genVars >>

\* lines 104-111: the thread's own import check
CapImport ==
    /\ alive
    /\ capPc = "import"
    /\ capPc' = IF driver THEN "setup_open" ELSE "done"
    /\ UNCHANGED << mainVars, shots, device, stream, closeCalls, bufVars, buffer_lock,
                    stop_thread, genVars >>

\* setup_camera, line 62: Picamera2() opens the camera
SetupOpenOk ==
    /\ alive
    /\ capPc = "setup_open"
    /\ device' = "open"
    /\ capPc' = "setup_configure"
    /\ UNCHANGED << mainVars, shots, stream, closeCalls, bufVars, buffer_lock,
                    stop_thread, genVars >>

\* line 62 raises: lines 82-84 return None, lines 117-119 return
SetupOpenFails ==
    /\ alive
    /\ capPc = "setup_open"
    /\ capPc' = "no_camera"
    /\ UNCHANGED << mainVars, shots, device, stream, closeCalls, bufVars, buffer_lock,
                    stop_thread, genVars >>

\* setup_camera, lines 67-72: create_video_configuration and configure
SetupConfigureOk ==
    /\ alive
    /\ capPc = "setup_configure"
    /\ capPc' = "setup_af"
    /\ UNCHANGED << mainVars, shots, device, stream, closeCalls, bufVars, buffer_lock,
                    stop_thread, genVars >>

\* lines 67-72 raise: lines 82-84 return None and drop the opened handle,
\* lines 117-119 return
SetupConfigureFails ==
    /\ alive
    /\ capPc = "setup_configure"
    /\ capPc' = "no_camera"
    /\ UNCHANGED << mainVars, shots, device, stream, closeCalls, bufVars, buffer_lock,
                    stop_thread, genVars >>

\* setup_camera, lines 75-81: set_controls, whose failure is only printed
SetupAutofocus ==
    /\ alive
    /\ capPc = "setup_af"
    /\ capPc' = "start"
    /\ UNCHANGED << mainVars, shots, device, stream, closeCalls, bufVars, buffer_lock,
                    stop_thread, genVars >>

\* lines 123-127: picam2.start() and JpegEncoder(q=90)
CapStartOk ==
    /\ alive
    /\ capPc = "start"
    /\ capPc' = "loop_test"
    /\ UNCHANGED << mainVars, shots, device, stream, closeCalls, bufVars, buffer_lock,
                    stop_thread, genVars >>

\* lines 123-127 raise: except at 147, then the finally block
CapStartFails ==
    /\ alive
    /\ capPc = "start"
    /\ capPc' = "close"
    /\ UNCHANGED << mainVars, shots, device, stream, closeCalls, bufVars, buffer_lock,
                    stop_thread, genVars >>

\* line 130: while not stop_thread
LoopTest ==
    /\ alive
    /\ capPc = "loop_test"
    /\ capPc' = IF stop_thread THEN "close" ELSE "capture"
    /\ UNCHANGED << mainVars, shots, device, stream, closeCalls, bufVars, buffer_lock,
                    stop_thread, genVars >>

\* lines 132-138: capture_file writes one JPEG into a fresh stream
CaptureOk ==
    /\ alive
    /\ capPc = "capture"
    /\ shots' = Min(shots + 1, MaxFrames)
    /\ stream' = shots'
    /\ capPc' = "publish"
    /\ UNCHANGED << mainVars, device, closeCalls, bufVars, buffer_lock,
                    stop_thread, genVars >>

\* line 135 raises: except at 147, then the finally block
CaptureFails ==
    /\ alive
    /\ capPc = "capture"
    /\ capPc' = "close"
    /\ UNCHANGED << mainVars, shots, device, stream, closeCalls, bufVars, buffer_lock,
                    stop_thread, genVars >>

\* Publish storing a truncated byte string: one that was never captured
PublishTorn ==
    /\ alive
    /\ capPc = "publish"
    /\ buffer_lock = Free
    /\ frame_buffer' = MaxFrames + stream
    /\ published' = published \cup {stream}
    /\ lastPub' = stream
    /\ pubAfterStop' = IF stop_thread THEN pubAfterStop + 1 ELSE pubAfterStop
    /\ stream' = None
    /\ capPc' = "loop_test"
    /\ UNCHANGED << mainVars, shots, device, closeCalls, buffer_lock, stop_thread, genVars >>

\* Publish filling the slot only while it is empty: the first writer wins
PublishKeepsFirst ==
    /\ alive
    /\ capPc = "publish"
    /\ buffer_lock = Free
    /\ frame_buffer' = IF frame_buffer = None THEN stream ELSE frame_buffer
    /\ published' = published \cup {stream}
    /\ lastPub' = stream
    /\ pubAfterStop' = IF stop_thread THEN pubAfterStop + 1 ELSE pubAfterStop
    /\ stream' = None
    /\ capPc' = "loop_test"
    /\ UNCHANGED << mainVars, shots, device, closeCalls, buffer_lock, stop_thread, genVars >>

\* lines 141-145: take buffer_lock, store the bytes, release, sleep 0.033 s.
\* The stream is dropped; line 132 makes a new one in the next iteration.
Publish ==
    /\ alive
    /\ capPc = "publish"
    /\ buffer_lock = Free
    /\ frame_buffer' = stream
    /\ published' = published \cup {stream}
    /\ lastPub' = stream
    /\ pubAfterStop' = IF stop_thread THEN pubAfterStop + 1 ELSE pubAfterStop
    /\ stream' = None
    /\ capPc' = "loop_test"
    /\ UNCHANGED << mainVars, shots, device, closeCalls, buffer_lock, stop_thread, genVars >>

\* CloseOk emptying the slot as part of the cleanup
CloseOkClearsBuffer ==
    /\ alive
    /\ capPc = "close"
    /\ closeCalls' = closeCalls + 1
    /\ device' = "released"
    /\ frame_buffer' = None
    /\ capPc' = "done"
    /\ UNCHANGED << mainVars, shots, stream, published, lastPub, pubAfterStop,
                    buffer_lock, stop_thread, genVars >>

\* lines 149-153: picam2.close() returns
CloseOk ==
    /\ alive
    /\ capPc = "close"
    /\ closeCalls' = closeCalls + 1
    /\ device' = "released"
    /\ capPc' = "done"
    /\ UNCHANGED << mainVars, shots, stream, bufVars, buffer_lock, stop_thread, genVars >>

\* line 152 raises inside the finally block: nothing catches it
CloseFails ==
    /\ alive
    /\ capPc = "close"
    /\ closeCalls' = closeCalls + 1
    /\ capPc' = "died"
    /\ UNCHANGED << mainVars, shots, device, stream, bufVars, buffer_lock, stop_thread,
                    genVars >>

Capture ==
    \/ CapImport
    \/ SetupOpenOk
    \/ SetupOpenFails
    \/ SetupConfigureOk
    \/ SetupConfigureFails
    \/ SetupAutofocus
    \/ CapStartOk
    \/ CapStartFails
    \/ LoopTest
    \/ CaptureOk
    \/ CaptureFails
    \/ Publish
    \/ CloseOk
    \/ CloseFails

\* ===================================================== the generators ==

\* line 281: a viewer requests /video_feed and the server starts pulling
GenConnect(g) ==
    /\ mainPc = "app_run"
    /\ genPc[g] = "idle"
    /\ genPc' = [genPc EXCEPT ![g] = "check"]
    /\ UNCHANGED << mainVars, capVars, bufVars, buffer_lock, stop_thread,
                    first, wait_count, seen, sent, nsent >>

\* GenCheck with the loop body run before the first test (a do-while)
GenCheckPollsFirst(g) ==
    /\ alive
    /\ genPc[g] = "check"
    /\ seen' = [seen EXCEPT ![g] = frame_buffer]
    /\ IF frame_buffer = None \/ first[g] = "untested"
       THEN /\ genPc' = [genPc EXCEPT ![g] = "poll"]
            /\ UNCHANGED wait_count
       ELSE /\ genPc' = [genPc EXCEPT ![g] = "read"]
            /\ wait_count' = [wait_count EXCEPT ![g] = 0]
    /\ first' = [first EXCEPT ![g] = IF @ # "untested" THEN @
                                     ELSE IF frame_buffer = None THEN "empty"
                                     ELSE "frame"]
    /\ UNCHANGED << mainVars, capVars, bufVars, buffer_lock, stop_thread,
                    sent, nsent >>

\* GenCheck with the loop condition inverted: while frame_buffer is not None
GenCheckInverted(g) ==
    /\ alive
    /\ genPc[g] = "check"
    /\ seen' = [seen EXCEPT ![g] = frame_buffer]
    /\ IF frame_buffer # None
       THEN /\ genPc' = [genPc EXCEPT ![g] = "poll"]
            /\ UNCHANGED wait_count
       ELSE /\ genPc' = [genPc EXCEPT ![g] = "read"]
            /\ wait_count' = [wait_count EXCEPT ![g] = 0]
    /\ first' = [first EXCEPT ![g] = IF @ # "untested" THEN @
                                     ELSE IF frame_buffer = None THEN "empty"
                                     ELSE "frame"]
    /\ UNCHANGED << mainVars, capVars, bufVars, buffer_lock, stop_thread,
                    sent, nsent >>

\* line 171: while frame_buffer is None, read without the lock.  wait_count
\* is never read again once the loop is left, and is forgotten there.
GenCheck(g) ==
    /\ alive
    /\ genPc[g] = "check"
    /\ seen' = [seen EXCEPT ![g] = frame_buffer]
    /\ IF frame_buffer = None
       THEN /\ genPc' = [genPc EXCEPT ![g] = "poll"]
            /\ UNCHANGED wait_count
       ELSE /\ genPc' = [genPc EXCEPT ![g] = "read"]
            /\ wait_count' = [wait_count EXCEPT ![g] = 0]
    /\ first' = [first EXCEPT ![g] = IF @ # "untested" THEN @
                                     ELSE IF frame_buffer = None THEN "empty"
                                     ELSE "frame"]
    /\ UNCHANGED << mainVars, capVars, bufVars, buffer_lock, stop_thread,
                    sent, nsent >>

\* lines 172-174: the 0.5 s sleep ends, wait_count += 1, if wait_count > 20
GenPoll(g) ==
    /\ alive
    /\ genPc[g] = "poll"
    /\ wait_count' = [wait_count EXCEPT ![g] = @ + 1]
    /\ genPc' = [genPc EXCEPT ![g] = IF wait_count[g] + 1 > MAX_WAIT
                                     THEN "render" ELSE "check"]
    /\ UNCHANGED << mainVars, capVars, bufVars, buffer_lock, stop_thread,
                    first, seen, sent, nsent >>

\* lines 176-190: the error image is drawn and encoded, and its chunk yielded
GenRenderOk(g) ==
    /\ alive
    /\ genPc[g] = "render"
    /\ sent' = [sent EXCEPT ![g] = Chunk(ErrorImage)]
    /\ nsent' = [nsent EXCEPT ![g] = Min(@ + 1, MaxChunks)]
    /\ genPc' = [genPc EXCEPT ![g] = "fb_yield"]
    /\ UNCHANGED << mainVars, capVars, bufVars, buffer_lock, stop_thread,
                    first, wait_count, seen >>

\* GenRenderFails with the while loop going on instead of line 194's return
GenRenderFailsRetries(g) ==
    /\ alive
    /\ genPc[g] = "render"
    /\ genPc' = [genPc EXCEPT ![g] = "check"]
    /\ UNCHANGED << mainVars, capVars, bufVars, buffer_lock, stop_thread,
                    first, wait_count, seen, sent, nsent >>

\* lines 178-186 raise: lines 192-194 print and return
GenRenderFails(g) ==
    /\ alive
    /\ genPc[g] = "render"
    /\ genPc' = [genPc EXCEPT ![g] = "done"]
    /\ UNCHANGED << mainVars, capVars, bufVars, buffer_lock, stop_thread,
                    first, wait_count, seen, sent, nsent >>

\* PullFallback without the return of line 191: the while loop goes on
PullFallbackLoops(g) ==
    /\ alive
    /\ genPc[g] = "fb_yield"
    /\ genPc' = [genPc EXCEPT ![g] = "check"]
    /\ UNCHANGED << mainVars, capVars, bufVars, buffer_lock, stop_thread,
                    first, wait_count, seen, sent, nsent >>

\* line 191: the viewer pulls again after the error image and the generator returns
PullFallback(g) ==
    /\ alive
    /\ genPc[g] = "fb_yield"
    /\ genPc' = [genPc EXCEPT ![g] = "done"]
    /\ UNCHANGED << mainVars, capVars, bufVars, buffer_lock, stop_thread,
                    first, wait_count, seen, sent, nsent >>

\* GenSteadyRead ending the response once the capture thread has ended
GenSteadyReadWhileCapturing(g) ==
    /\ alive
    /\ genPc[g] = "read"
    /\ buffer_lock = Free
    /\ seen' = [seen EXCEPT ![g] = frame_buffer]
    /\ IF capPc \in {"no_camera", "done", "died"}
       THEN /\ genPc' = [genPc EXCEPT ![g] = "done"]
            /\ UNCHANGED << buffer_lock, sent, nsent >>
       ELSE IF frame_buffer # None
       THEN /\ buffer_lock' = g
            /\ sent' = [sent EXCEPT ![g] = Chunk(frame_buffer)]
            /\ nsent' = [nsent EXCEPT ![g] = Min(@ + 1, MaxChunks)]
            /\ genPc' = [genPc EXCEPT ![g] = "yield"]
       ELSE UNCHANGED << buffer_lock, sent, nsent, genPc >>
    /\ UNCHANGED << mainVars, capVars, bufVars, stop_thread, first, wait_count >>

\* lines 199-203: take buffer_lock; if frame_buffer is not None, yield its
\* chunk from inside the with block, so the generator is suspended holding
\* the lock.  With an empty buffer the block ends and line 206 sleeps.
GenSteadyRead(g) ==
    /\ alive
    /\ genPc[g] = "read"
    /\ buffer_lock = Free
    /\ seen' = [seen EXCEPT ![g] = frame_buffer]
    /\ IF frame_buffer # None
       THEN /\ buffer_lock' = g
            /\ sent' = [sent EXCEPT ![g] = Chunk(frame_buffer)]
            /\ nsent' = [nsent EXCEPT ![g] = Min(@ + 1, MaxChunks)]
            /\ genPc' = [genPc EXCEPT ![g] = "yield"]
       ELSE UNCHANGED << buffer_lock, sent, nsent, genPc >>
    /\ UNCHANGED << mainVars, capVars, bufVars, stop_thread, first, wait_count >>

\* PullSteady with a return after the yield: one chunk and the response ends
PullSteadyReturns(g) ==
    /\ alive
    /\ genPc[g] = "yield"
    /\ buffer_lock' = Free
    /\ genPc' = [genPc EXCEPT ![g] = "done"]
    /\ UNCHANGED << mainVars, capVars, bufVars, stop_thread,
                    first, wait_count, seen, sent, nsent >>

\* PullSteady with the lock never released (an acquire without its release)
PullSteadyKeepsLock(g) ==
    /\ alive
    /\ genPc[g] = "yield"
    /\ genPc' = [genPc EXCEPT ![g] = "read"]
    /\ UNCHANGED << mainVars, capVars, bufVars, buffer_lock, stop_thread,
                    first, wait_count, seen, sent, nsent >>

\* lines 203-206: the viewer pulls the next value; the with block ends,
\* releasing buffer_lock, and the generator sleeps 0.033 s
PullSteady(g) ==
    /\ alive
    /\ genPc[g] = "yield"
    /\ buffer_lock' = Free
    /\ genPc' = [genPc EXCEPT ![g] = "read"]
    /\ UNCHANGED << mainVars, capVars, bufVars, stop_thread,
                    first, wait_count, seen, sent, nsent >>

\* the viewer disconnects and the server closes the generator: GeneratorExit
\* is raised at the yield (line 189 or 202) and unwinds the with block
ViewerCloses(g) ==
    /\ alive
    /\ genPc[g] \in {"yield", "fb_yield"}
    /\ buffer_lock' = IF genPc[g] = "yield" THEN Free ELSE buffer_lock
    /\ genPc' = [genPc EXCEPT ![g] = "closed"]
    /\ UNCHANGED << mainVars, capVars, bufVars, stop_thread,
                    first, wait_count, seen, sent, nsent >>

Generator(g) ==
    \/ GenConnect(g)
    \/ GenCheck(g)
    \/ GenPoll(g)
    \/ GenRenderOk(g)
    \/ GenRenderFails(g)
    \/ PullFallback(g)
    \/ GenSteadyRead(g)
    \/ PullSteady(g)
    \/ ViewerCloses(g)

Next ==
    \/ Main
    \/ Capture
    \/ \E g \in Gens : Generator(g)

Spec == Init /\ [][Next]_vars

\* Scheduling of the waiters for buffer_lock.  A generator blocked at line
\* 199 is woken when the lock is released, and the thread that released it
\* then sleeps 0.033 s (line 145 or 206): a generator that finds the lock
\* free again and again does get it.
LockFairness == \A g \in Gens : SF_vars(GenSteadyRead(g))

\* Every viewer of a live stream keeps pulling the chunks of its response.
ViewersPull == \A g \in Gens : WF_vars(PullSteady(g))

\* The main thread runs: line 338 is executed once the finally block is
\* entered, and join(timeout=1.0) returns.  Nothing is assumed of the capture
\* thread, which may hang in a collaborator call, nor of the viewers.
MainFairness == WF_vars(SetStop) /\ WF_vars(JoinReturns \/ JoinTimeout)

\* the program with its main thread scheduled
MainSpec == Spec /\ MainFairness

\* the program with its generators scheduled and its viewers pulling
LiveSpec == Spec /\ LockFairness /\ ViewersPull

\* ============================================================ claims ==

\* the chunk of the error image
FallbackChunk == Chunk(ErrorImage)
\* the chunks that wrap a frame stored into frame_buffer so far
PublishedChunks == { Chunk(f) : f \in published }
\* the generator is in the loop of lines 197-206
Steady(g) == genPc[g] \in {"read", "yield"}
\* the step is a read of frame_buffer by g: line 171, or lines 200-203
ReadStep(g) == genPc[g] \in {"check", "read"} /\ genPc'[g] # genPc[g]

\* C1: whatever a generator reads from frame_buffer, at the unlocked test of
\* line 171 or under the lock at lines 200-203, is None or a frame that the
\* capture loop has stored; no other value is ever observed.
C1_ReadsOnlyPublished ==
    \A g \in Gens : seen[g] = None \/ seen[g] \in published

\* C1 witness: a generator holds a frame it read while the slot has already
\* moved on to another published frame.
C1_Witness ==
    \E g \in Gens : /\ seen[g] # None
                    /\ seen[g] # frame_buffer
                    /\ Cardinality(published) = 2

\* C2: last writer wins.  Every read of the slot returns the frame of the
\* latest store completed before it (None when nothing was stored), whatever
\* was stored earlier.
C2_LastWriterWins ==
    [][\A g \in Gens : ReadStep(g) => seen'[g] = lastPub]_vars

\* C2 witness: two different frames have been stored and a generator that
\* read after both is suspended with the chunk of the later one.
C2_Witness ==
    \E g \in Gens : /\ genPc[g] = "yield"
                    /\ Cardinality(published) = 2
                    /\ sent[g] = Chunk(lastPub)

\* C3 as claimed: with nothing ever stored, a generator that has ended has
\* yielded exactly one chunk, the error image, and none is in the steady loop.
C3_ExactlyOneFallbackChunk ==
    \A g \in Gens :
        published = {} =>
            /\ ~Steady(g)
            /\ genPc[g] = "done" => (nsent[g] = 1 /\ sent[g] = FallbackChunk)

\* C3 amended: with nothing ever stored, a generator never enters the
\* steady loop and never yields a second chunk; it reaches the error image
\* only after the startup window, is suspended on exactly one chunk, the
\* error image, when drawing it worked, and ends with that one chunk or,
\* when drawing it failed, with none.
C3_AtMostOneFallbackChunk ==
    \A g \in Gens :
        published = {} =>
            /\ ~Steady(g)
            /\ nsent[g] <= 1
            /\ nsent[g] = 1 => sent[g] = FallbackChunk
            /\ nsent[g] = 0 => sent[g] = NoChunk
            /\ genPc[g] \in {"render", "fb_yield", "done"} => wait_count[g] > MAX_WAIT
            /\ genPc[g] = "fb_yield" => nsent[g] = 1
            /\ nsent[g] = 1 => genPc[g] \in {"fb_yield", "done", "closed"}

\* C3 witness: nothing was stored and a generator ended after one chunk.
C3_Witness ==
    \E g \in Gens : published = {} /\ genPc[g] = "done" /\ nsent[g] = 1

\* C4: a generator that finds the slot empty gives up, and draws the error
\* image, after exactly 20 polls of 0.5 s.
C4_GivesUpAfter20Polls ==
    \A g \in Gens : genPc[g] = "render" => wait_count[g] = MAX_WAIT

\* C5: a generator whose first test of the slot found a frame never waits,
\* never draws or yields the error image and never ends; every chunk it
\* yields wraps a frame stored into the slot.
C5_NoFallbackAfterEarlyPublish ==
    \A g \in Gens :
        first[g] = "frame" =>
            /\ genPc[g] \in {"read", "yield", "closed"}
            /\ sent[g] # FallbackChunk
            /\ sent[g] = NoChunk \/ sent[g] \in PublishedChunks

\* C5 witness: such a generator has yielded chunks repeatedly.
C5_Witness ==
    \E g \in Gens : /\ first[g] = "frame"
                    /\ nsent[g] = MaxChunks
                    /\ sent[g] \in PublishedChunks

\* C6: once stop_thread is set while the capture loop runs, the loop stores
\* at most one more frame and leaves: its store is never held up by a
\* generator, whatever the generators are doing.
C6_StopEndsLoop ==
    /\ pubAfterStop <= 1
    /\ (stop_thread /\ alive /\ capPc = "publish") => buffer_lock = Free

\* C7: on every way out of capture_frames the camera handle, once opened,
\* has been closed exactly once; it is never closed twice.
C7_ReleasedExactlyOnce ==
    /\ closeCalls <= 1
    /\ (CapFinished /\ device # "absent") => closeCalls = 1

\* C8 as claimed: when the camera could not be set up the server still runs,
\* nothing is ever stored, no generator enters the steady loop, and every
\* generator that has ended has yielded exactly one chunk, the error image.
C8_OpenFailureOneFallbackChunk ==
    capPc = "no_camera" =>
        /\ mainPc \in {"app_run", "finally", "join", "exited"}
        /\ published = {} /\ frame_buffer = None
        /\ \A g \in Gens :
              /\ ~Steady(g)
              /\ genPc[g] = "done" => (nsent[g] = 1 /\ sent[g] = FallbackChunk)

\* C8 amended: when the camera could not be set up the server still runs,
\* nothing is ever stored, no generator enters the steady loop, and every
\* generator that has ended did so after the startup window with one chunk,
\* the error image, or with no chunk when drawing the error image failed.
C8_OpenFailureFallbackPath ==
    capPc = "no_camera" =>
        /\ mainPc \in {"app_run", "finally", "join", "exited"}
        /\ published = {} /\ frame_buffer = None
        /\ \A g \in Gens :
              /\ ~Steady(g)
              /\ first[g] # "frame"
              /\ genPc[g] = "done" =>
                    /\ wait_count[g] > MAX_WAIT
                    /\ \/ nsent[g] = 1 /\ sent[g] = FallbackChunk
                       \/ nsent[g] = 0 /\ sent[g] = NoChunk

\* C8 witness: the camera could not be set up, the server is serving, one
\* viewer got the error image and its response ended, another is waiting.
C8_Witness ==
    /\ capPc = "no_camera"
    /\ mainPc = "app_run"
    /\ \E g, h \in Gens : /\ genPc[g] = "done" /\ sent[g] = FallbackChunk
                          /\ genPc[h] = "poll"

\* C9: once the capture thread has ended leaving frame F in the slot, every
\* generator in the steady loop whose viewer keeps pulling comes to be
\* suspended on a chunk wrapping F, unless the viewer disconnects or the
\* process ends first, whatever the other generators do.
C9_BothEmitLatest ==
    \A g \in Gens :
        (CapFinished /\ frame_buffer # None /\ Steady(g))
            ~> \/ genPc[g] = "yield" /\ sent[g] = Chunk(frame_buffer)
               \/ genPc[g] = "closed"
               \/ ~alive

\* C9 witness: the capture thread has ended after storing two different
\* frames and both generators have yielded the chunk of the last one.
C9_Witness ==
    /\ CapFinished /\ alive
    /\ Cardinality(published) = 2
    /\ \E g, h \in Gens : /\ g # h
                          /\ genPc[g] = "yield" /\ genPc[h] = "read"
                          /\ sent[g] = Chunk(frame_buffer)
                          /\ sent[h] = Chunk(frame_buffer)

\* C10: a generator suspended at its yield, its viewer slow or gone quiet,
\* never keeps another generator from reading the slot: it does not hold
\* buffer_lock while another generator is about to read.
C10_GeneratorsIndependent ==
    \A g, h \in Gens :
        (g # h /\ genPc[g] = "yield" /\ genPc[h] = "read") => buffer_lock # g

\* the main thread has ended, one way or another
MainEnded == mainPc \in {"crashed", "fallback_exit", "exited"}

\* C11: without the picamera2 package the capture thread is never started,
\* the server is never started, and the process ends only by running the
\* fallback program and exit(0) (lines 312-320).
C11_FallbackOnMissingDriver ==
    ~driver =>
        /\ capPc = "not_started"
        /\ mainPc \notin {"thread_start", "app_run", "finally", "join"}
        /\ MainEnded => mainPc = "fallback_exit"

\* C12: the main thread sets stop_thread before it waits for the capture
\* thread, and once the server has ended the process always comes to its
\* end, whether or not the capture thread ever leaves its loop.
C12_BoundedShutdown ==
    /\ [](mainPc = "join" => stop_thread)
    /\ (mainPc = "finally") ~> (mainPc = "exited")

\* C12 witness: the process has ended with stop_thread set while the
\* capture thread was still waiting for buffer_lock.
C12_Witness ==
    /\ mainPc = "exited"
    /\ stop_thread
    /\ capPc = "publish"
    /\ buffer_lock # Free

\* C13: a generator in the steady loop never ends by itself.  The slot it
\* reads is never empty, so every read under the lock yields a chunk; every
\* step leaves it in the loop, except the viewer's disconnection, which
\* closes it where it is suspended at its yield.
C13_SteadyNeverEnds ==
    /\ [](\A g \in Gens : Steady(g) => frame_buffer # None)
    /\ [][\A g \in Gens :
            Steady(g) =>
                /\ genPc'[g] \in {"read", "yield", "closed"}
                /\ genPc'[g] = "closed" => genPc[g] = "yield"
                /\ (genPc[g] = "read" /\ genPc'[g] = "yield") =>
                       sent'[g] = Chunk(frame_buffer)]_vars

\* C13 witness: a generator is in the steady loop, about to read once more,
\* after it has yielded chunk after chunk.
C13_Witness ==
    \E g \in Gens : /\ genPc[g] = "read"
                    /\ nsent[g] = MaxChunks
                    /\ alive

\* C14: buffer_lock is held only for the store or the read of the slot: no
\* generator holds it while suspended at its yield.
C14_LockNotHeldAcrossYield ==
    \A g \in Gens : genPc[g] = "yield" => buffer_lock # g

\* C15: a generator decides for the error image only while the slot is
\* still empty at the end of its last poll; a frame stored during that poll
\* sends it to the steady loop instead.
C15_FallbackOnlyIfStillEmpty ==
    [][\A g \in Gens :
          (genPc[g] = "poll" /\ genPc'[g] = "render") => frame_buffer = None]_vars

\* C16: once the capture thread has ended, by failure or by the stop
\* signal, it stays ended: the slot is never stored into again, the camera
\* is not reopened and the thread is not restarted.
C16_EndedIsTerminal ==
    [][CapFinished =>
          /\ capPc' = capPc
          /\ frame_buffer' = frame_buffer
          /\ published' = published
          /\ device' = device
          /\ closeCalls' = closeCalls]_vars

\* C16 witness: the capture thread has ended after storing a frame and the
\* server is still serving a viewer.
C16_Witness ==
    /\ capPc = "done"
    /\ frame_buffer # None
    /\ mainPc = "app_run"
    /\ \E g \in Gens : genPc[g] = "check"

\* C17: no exception of the camera calls leaves capture_frames: the thread
\* always ends by returning, never by dying of an exception.
C17_NoErrorEscapes == capPc # "died"

\* C18: when drawing the error image fails, the generator ends at once,
\* having yielded nothing: it does not try again and does not go on to the
\* steady loop; once ended it yields nothing more.
C18_RenderFailureEndsSilently ==
    [][\A g \in Gens :
          /\ (genPc[g] = "render" /\ genPc'[g] \notin {"render", "fb_yield"}) =>
                 /\ genPc'[g] = "done"
                 /\ nsent'[g] = 0 /\ sent'[g] = NoChunk
                 /\ buffer_lock' = buffer_lock
          /\ genPc[g] = "done" =>
                 /\ genPc'[g] = "done"
                 /\ nsent'[g] = nsent[g] /\ sent'[g] = sent[g]]_vars

\* C18 witness: a generator has ended after the startup window without
\* having yielded a chunk.
C18_Witness ==
    \E g \in Gens : /\ genPc[g] = "done"
                    /\ nsent[g] = 0
                    /\ wait_count[g] > MAX_WAIT

\* the capture thread has ended after storing at least one frame
EndedWithFrame == CapFinished /\ published # {}

C20_SlotMonotone ==
    /\ frame_buffer = None
    /\ [][frame_buffer' # frame_buffer =>
             /\ capPc = "publish" /\ capPc' = "loop_test"
             /\ frame_buffer' = stream
             /\ frame_buffer' \in Frames
             /\ genPc' = genPc]_vars

\* C20 witness: the slot holds the second frame, stored over the first.
C20_Witness ==
    /\ frame_buffer # None
    /\ Cardinality(published) = 2
    /\ \E g \in Gens : seen[g] # None /\ seen[g] # frame_buffer
    /\ CapFinished
====
